---- MODULE Spec2Model ----
(***************************************************************************)
(* PublicMusicService (PMS), cmd/pms/main.go: a gin HTTP server with one   *)
(* relay endpoint (GET /song), a health endpoint (GET /health) and a CORS  *)
(* middleware, configured once from the environment in init().             *)
(*                                                                         *)
(* Text is modelled as a sequence of one-character strings where the code  *)
(* looks at characters (strconv.Atoi, url.QueryEscape, the JSON scanner);  *)
(* an element of more than one character ("exhigh") stands for a run of    *)
(* unreserved characters that no operation looks into.                     *)
(***************************************************************************)
EXTENDS Integers, Sequences, FiniteSets, TLC

\* ------------------------------------------------------------ bounds

\* Longest `id` query value, in characters.
MaxLen == 2
\* Most entries in an upstream `data` array.
MaxData == 2
\* Most advances of the wall clock in one run.
MaxTicks == 1

\* ------------------------------------------------------------ text

Str(s) == <<s>>
NoStr == <<>>

Digits == <<"0", "1", "2", "3", "4", "5", "6", "7", "8", "9">>

IsDigit(c) == \E i \in 1..10 : Digits[i] = c

DigitVal(c) == (CHOOSE i \in 1..10 : Digits[i] = c) - 1

RECURSIVE DigitsVal(_, _)
\* n = n*10 + ch over the digits of s, as strconv.Atoi's loop does.
DigitsVal(s, n) ==
    IF s = <<>> THEN n ELSE DigitsVal(Tail(s), n * 10 + DigitVal(Head(s)))

\* strconv.Atoi: an optional sign, then one or more decimal digits.  The
\* result is [err, n]; err is TRUE on a syntax error.  (The range error of
\* 20-digit texts is the same err to the caller and lies outside MaxLen.)
Atoi(s) ==
    LET signed == s # <<>> /\ Head(s) \in {"-", "+"}
        ds     == IF signed THEN Tail(s) ELSE s
    IN  IF ds = <<>> \/ \E i \in 1..Len(ds) : ~IsDigit(ds[i])
        THEN [err |-> TRUE, n |-> 0]
        ELSE [err |-> FALSE,
              n   |-> IF Head(s) = "-" THEN 0 - DigitsVal(ds, 0)
                                       ELSE DigitsVal(ds, 0)]

RECURSIVE UDigits(_)
\* The decimal digits of a natural number, most significant first.
UDigits(n) ==
    IF n < 10 THEN <<Digits[n + 1]>>
    ELSE Append(UDigits(n \div 10), Digits[(n % 10) + 1])

\* strconv.Itoa / strconv.FormatInt(n, 10).
Itoa(n) == IF n < 0 THEN <<"-">> \o UDigits(0 - n) ELSE UDigits(n)

\* ------------------------------------------------------------ net/url

\* url.QueryEscape on one character: a space becomes "+", a reserved
\* character its %XX form (one element), anything else is kept.
EscapeChar(c) ==
    CASE c = " " -> "+"
      [] c = "&" -> "%26"
      [] c = "=" -> "%3D"
      [] c = "+" -> "%2B"
      [] c = ";" -> "%3B"
      [] c = "%" -> "%25"
      [] OTHER   -> c

QueryEscape(s) == [i \in 1..Len(s) |-> EscapeChar(s[i])]

\* url.QueryUnescape on one element of an escaped text.
UnescapeChar(c) ==
    CASE c = "+"   -> " "
      [] c = "%26" -> "&"
      [] c = "%3D" -> "="
      [] c = "%2B" -> "+"
      [] c = "%3B" -> ";"
      [] c = "%25" -> "%"
      [] OTHER     -> c

QueryUnescape(s) == [i \in 1..Len(s) |-> UnescapeChar(s[i])]

\* url.Values.Encode writes the keys in sorted order; these are the keys
\* getSongURL adds, in byte order.
SortedKeys == <<"cookie", "id", "level", "realIP", "timestamp">>

\* url.Values.Add: params is a sequence of <<key, value>> in call order.
Add(params, k, v) == Append(params, <<k, v>>)

\* url.Values.Get: the first value added under k.
ValuesGet(params, k) ==
    LET I == {i \in 1..Len(params) : params[i][1] = k}
    IN  IF I = {} THEN NoStr
        ELSE params[CHOOSE i \in I : \A j \in I : i <= j][2]

RECURSIVE EncodeFrom(_, _, _)
EncodeFrom(params, i, first) ==
    IF i > Len(SortedKeys) THEN <<>>
    ELSE LET k == SortedKeys[i]
         IN  IF \E j \in 1..Len(params) : params[j][1] = k
             THEN (IF first THEN <<>> ELSE <<"&">>)
                  \o QueryEscape(Str(k)) \o <<"=">>
                  \o QueryEscape(ValuesGet(params, k))
                  \o EncodeFrom(params, i + 1, FALSE)
             ELSE EncodeFrom(params, i + 1, first)

\* url.Values.Encode: "k=v&k=v", keys sorted, keys and values escaped.
Encode(params) == EncodeFrom(params, 1, TRUE)

RECURSIVE SplitOn(_, _)
\* strings.Split of an element sequence on a separator element.
SplitOn(s, sep) ==
    IF \A i \in 1..Len(s) : s[i] # sep THEN <<s>>
    ELSE LET p == CHOOSE i \in 1..Len(s) :
                     s[i] = sep /\ \A j \in 1..(i - 1) : s[j] # sep
         IN  <<SubSeq(s, 1, p - 1)>> \o SplitOn(SubSeq(s, p + 1, Len(s)), sep)

\* What the receiving server reads under key k from a raw query
\* (url.ParseQuery then Get): pairs split on "&", each cut at its first
\* "=", both halves unescaped; [present, value].
QueryParam(raw, k) ==
    LET parts == SplitOn(raw, "&")
        KeyOf(p) == QueryUnescape(Head(SplitOn(p, "=")))
        ValOf(p) == IF \A i \in 1..Len(p) : p[i] # "=" THEN NoStr
                    ELSE QueryUnescape(SubSeq(p, Len(Head(SplitOn(p, "="))) + 2, Len(p)))
        I == {i \in 1..Len(parts) : parts[i] # <<>> /\ KeyOf(parts[i]) = Str(k)}
    IN  IF I = {} THEN [present |-> FALSE, value |-> NoStr]
        ELSE [present |-> TRUE,
              value   |-> ValOf(parts[CHOOSE i \in I : \A j \in I : i <= j])]

\* ------------------------------------------------------------ encoding/json

\* A JSON value is written as its token text; kind is what the scanner
\* decides from the first character.
Null == <<"null">>
Quote == "\""

TokKind(t) ==
    CASE t = <<>>                   -> "absent"
      [] Head(t) = "null"           -> "null"
      [] Head(t) \in {"true", "false"} -> "bool"
      [] Head(t) = Quote            -> "string"
      [] Head(t) = "{"              -> "object"
      [] Head(t) = "["              -> "array"
      [] OTHER                      -> "number"

\* SongURLResponse.Data's element type: json key, Go type, in field order.
Fields == <<
    [key |-> "id",            type |-> "int"],
    [key |-> "url",           type |-> "string"],
    [key |-> "br",            type |-> "int"],
    [key |-> "size",          type |-> "int"],
    [key |-> "md5",           type |-> "string"],
    [key |-> "code",          type |-> "int"],
    [key |-> "expi",          type |-> "int"],
    [key |-> "type",          type |-> "string"],
    [key |-> "gain",          type |-> "float64"],
    [key |-> "peak",          type |-> "float64"],
    [key |-> "fee",           type |-> "int"],
    [key |-> "uf",            type |-> "interface"],
    [key |-> "payed",         type |-> "int"],
    [key |-> "flag",          type |-> "int"],
    [key |-> "canExtend",     type |-> "bool"],
    [key |-> "freeTrialInfo", type |-> "interface"],
    [key |-> "level",         type |-> "string"] >>

DeclaredKeys == {Fields[i].key : i \in 1..Len(Fields)}

\* The Go type of each declared key.
FieldType ==
    [k \in DeclaredKeys |->
        Fields[CHOOSE i \in 1..Len(Fields) : Fields[i].key = k].type]

TypeOf(k) == FieldType[k]

\* The string unquoting of the decoder: \u0026 is "&".
UnquoteChar(c) == IF c = "\\u0026" THEN "&" ELSE c

\* The inner text of a string token, unescaped.
Unquote(t) == [i \in 1..(Len(t) - 2) |-> UnquoteChar(t[i + 1])]

\* json.Marshal escapes HTML characters in strings: "&" is written \u0026.
QuoteChar(c) == IF c = "&" THEN "\\u0026" ELSE c

MarshalString(s) == <<Quote>> \o [i \in 1..Len(s) |-> QuoteChar(s[i])] \o <<Quote>>

RECURSIVE StripZeros(_)
StripZeros(t) ==
    IF t # <<>> /\ t[Len(t)] = "0" THEN StripZeros(SubSeq(t, 1, Len(t) - 1))
    ELSE IF t # <<>> /\ t[Len(t)] = "." THEN SubSeq(t, 1, Len(t) - 1)
    ELSE t

\* A float64 read from a number token and written back by json.Marshal:
\* the shortest decimal, so a fraction loses its trailing zeros.
MarshalFloat(t) ==
    IF \E i \in 1..Len(t) : t[i] = "." THEN StripZeros(t) ELSE t

\* A fit that takes any number for an int.
FitsAnyNumber(t, type) ==
    LET k == TokKind(t)
    IN  \/ k \in {"absent", "null"}
        \/ type = "interface"
        \/ type \in {"int", "float64"} /\ k = "number"
        \/ type = "string" /\ k = "string"
        \/ type = "bool" /\ k = "bool"

\* Whether a token can be stored in a Go value of the type.  null is a
\* no-op for every type; a number with a fraction does not fit an int.
Fits(t, type) ==
    LET k == TokKind(t)
    IN  \/ k \in {"absent", "null"}
        \/ type = "interface"
        \/ type = "int" /\ k = "number" /\ ~Atoi(t).err
        \/ type = "float64" /\ k = "number"
        \/ type = "string" /\ k = "string"
        \/ type = "bool" /\ k = "bool"

\* The Go value a field of the type holds after decoding the token; the
\* zero value when the key is absent or null.
FieldValue(t, type) ==
    LET k == TokKind(t)
    IN  CASE type = "int"       -> IF k = "number" THEN Atoi(t).n ELSE 0
          [] type = "float64"   -> IF k = "number" THEN MarshalFloat(t) ELSE <<"0">>
          [] type = "string"    -> IF k = "string" THEN Unquote(t) ELSE NoStr
          [] type = "bool"      -> t = <<"true">>
          [] type = "interface" -> IF k = "absent" THEN Null
                                   ELSE IF k = "number" THEN MarshalFloat(t)
                                   ELSE IF k = "string" THEN MarshalString(Unquote(t))
                                   ELSE t

\* json.Marshal of a field's Go value.
MarshalField(v, type) ==
    CASE type = "int"       -> Itoa(v)
      [] type = "float64"   -> v
      [] type = "string"    -> MarshalString(v)
      [] type = "bool"      -> IF v THEN <<"true">> ELSE <<"false">>
      [] type = "interface" -> v

\* Keys the upstream service sends that SongURLResponse does not declare.
UndeclaredKeys == {"time"}

AllKeys == DeclaredKeys \cup UndeclaredKeys

\* An upstream body is either bytes that are not JSON, [kind |-> "text"],
\* or a JSON value: a scalar or array token at the top level,
\* [kind |-> "tok", tok], or an object with the keys code, data and msg
\* (an absent key is written <<>>).  data is a token or an array of
\* entries; an entry is a token or an object f over AllKeys.
EntryFits(e) ==
    IF e.kind = "tok" THEN TokKind(e.tok) = "null"
    ELSE \A k \in DeclaredKeys : Fits(e.f[k], TypeOf(k))

DataFits(d) ==
    IF d.kind = "tok" THEN TokKind(d.tok) \in {"absent", "null"}
    ELSE \A i \in 1..Len(d.items) : EntryFits(d.items[i])

\* json.Unmarshal(body, &songResp) returns an error: a syntax error for
\* bytes that are not JSON, a type error when a value does not fit the
\* Go type it is stored in.  Absent keys, null and undeclared keys are
\* not errors.
UnmarshalErr(body) ==
    CASE body.kind = "text"   -> TRUE
      [] body.kind = "tok"    -> TokKind(body.tok) # "null"
      [] body.kind = "object" -> ~Fits(body.code, "int") \/ ~DataFits(body.data)

\* The element of songResp.Data decoded from an entry: every declared
\* field, zero where the entry does not give it.
DecodeEntry(e) ==
    [k \in DeclaredKeys |->
        FieldValue(IF e.kind = "tok" THEN NoStr ELSE e.f[k], TypeOf(k))]

\* songResp after a successful json.Unmarshal: Code, and Data (nil for
\* an absent or null data).
Unmarshal(body) ==
    IF body.kind # "object"
    THEN [Code |-> 0, Data |-> [nil |-> TRUE, items |-> <<>>]]
    ELSE [Code |-> FieldValue(body.code, "int"),
          Data |-> IF body.data.kind = "tok"
                   THEN [nil |-> TRUE, items |-> <<>>]
                   ELSE [nil   |-> FALSE,
                         items |-> [i \in 1..Len(body.data.items) |->
                                        DecodeEntry(body.data.items[i])]]]

\* A marshalling that leaves out the fields holding their zero value.
MarshalEntryOmitEmpty(v) ==
    [kind |-> "object",
     f    |-> [k \in AllKeys |->
                 IF k \in DeclaredKeys
                    /\ MarshalField(v[k], TypeOf(k)) \notin
                         {<<"0">>, <<Quote, Quote>>, <<"false">>, Null}
                 THEN MarshalField(v[k], TypeOf(k))
                 ELSE NoStr]]

\* json.Marshal of one element of Data: the declared keys and no other.
MarshalEntry(v) ==
    [kind |-> "object",
     f    |-> [k \in AllKeys |->
                 IF k \in DeclaredKeys THEN MarshalField(v[k], TypeOf(k))
                 ELSE NoStr]]

\* json.Marshal of songResp, in the notation of upstream bodies.
Marshal(r) ==
    [kind |-> "object",
     code |-> Itoa(r.Code),
     data |-> IF r.Data.nil THEN [kind |-> "tok", tok |-> Null]
              ELSE [kind  |-> "array",
                    items |-> [i \in 1..Len(r.Data.items) |->
                                 MarshalEntry(r.Data.items[i])]],
     msg  |-> NoStr]

\* ------------------------------------------------------------ inputs

RECURSIVE SeqsUpTo(_, _)
\* The sequences over S of length at most n.
SeqsUpTo(S, n) ==
    IF n = 0 THEN {<<>>}
    ELSE LET shorter == SeqsUpTo(S, n - 1)
         IN  shorter \cup {Append(q, x) : q \in shorter, x \in S}

Absent == [present |-> FALSE, value |-> NoStr]
Given(v) == [present |-> TRUE, value |-> v]

\* Characters of an `id` query value: a digit, a sign, a letter.
IdChars == {"0", "7", "-", "+", "x"}

IdValues == SeqsUpTo(IdChars, MaxLen)

\* The optional parameters of a request: absent; present and empty;
\* present with a value, with and without characters that need escaping.
Optionals ==
    { [level |-> Absent, realip |-> Absent],
      [level |-> Given(NoStr), realip |-> Given(<<"a", " ", "=", "b">>)],
      [level |-> Given(<<"hires", "&", "x">>), realip |-> Absent],
      [level |-> Absent, realip |-> Given(<<"10.0.0.1">>)] }

Queries ==
    { [id |-> i, level |-> o.level, realip |-> o.realip] :
        i \in {Absent} \cup {Given(v) : v \in IdValues}, o \in Optionals }

NoQuery == [id |-> Absent, level |-> Absent, realip |-> Absent]

Methods == {"GET", "OPTIONS", "POST"}
Paths == {"/song", "/health", "/other"}

\* Every request the server is sent: a query matters to GET /song alone.
Requests ==
    { [method |-> "GET", path |-> "/song", query |-> q] : q \in Queries }
    \cup { [method |-> m, path |-> p, query |-> NoQuery] : m \in Methods, p \in Paths }

\* A few requests, for the runs that vary the upstream bodies.
FewRequests ==
    { [method |-> "GET", path |-> "/song", query |-> q] :
        q \in { NoQuery,
                [NoQuery EXCEPT !.id = Given(<<"7">>)],
                [NoQuery EXCEPT !.id = Given(<<"7">>),
                                !.level = Given(<<"hires", "&", "x">>)] } }
    \cup { [method |-> "GET", path |-> "/health", query |-> NoQuery],
           [method |-> "OPTIONS", path |-> "/song", query |-> NoQuery] }

\* The requests of the runs with several requests in flight.
ConcRequests == {rq \in FewRequests : rq.query.id.present \/ rq.path # "/song"}

Str1(s) == <<Quote, s, Quote>>

\* An entry as the upstream service sends it, every declared key given.
FullEntry ==
    [kind |-> "object",
     f |-> [k \in AllKeys |->
        CASE k = "id"            -> <<"7">>
          [] k = "url"           -> <<Quote, "http://m/a.mp3?u=1", "&", "v=2", Quote>>
          [] k = "br"            -> <<"3", "2", "0">>
          [] k = "size"          -> <<"9">>
          [] k = "md5"           -> Str1("d41d")
          [] k = "code"          -> <<"2", "0", "0">>
          [] k = "expi"          -> <<"1", "2", "0", "0">>
          [] k = "type"          -> Str1("mp3")
          [] k = "gain"          -> <<"-", "1", ".", "5">>
          [] k = "peak"          -> <<"1", ".", "0">>
          [] k = "fee"           -> <<"8">>
          [] k = "uf"            -> Null
          [] k = "payed"         -> <<"1">>
          [] k = "flag"          -> <<"4">>
          [] k = "canExtend"     -> <<"true">>
          [] k = "freeTrialInfo" -> <<"{", "}">>
          [] k = "level"         -> Str1("exhigh")
          [] OTHER               -> NoStr]]

\* Entries: complete; with an undeclared key; with a null url and no md5
\* (a track that is not available); null.
Entries ==
    { FullEntry,
      [FullEntry EXCEPT !.f["time"] = <<"0">>, !.f["id"] = <<"8">>],
      [FullEntry EXCEPT !.f["url"] = Null, !.f["md5"] = NoStr],
      [kind |-> "tok", tok |-> Null] }

\* Entries that do not fit the element type: an id that is a string, a
\* size with a fraction, an entry that is a number.
BadEntries ==
    { [FullEntry EXCEPT !.f["id"] = Str1("7")],
      [FullEntry EXCEPT !.f["size"] = <<"9", ".", "5">>],
      [kind |-> "tok", tok |-> <<"7">>] }

DataTok(t) == [kind |-> "tok", tok |-> t]
DataArray(es) == [kind |-> "array", items |-> es]

\* Upstream bodies: not JSON; a top-level null, array and number; code
\* 200 with every data; other codes (absent, 404, negative, a string, a
\* number with a fraction) with and without data.
Bodies ==
    { [kind |-> "text"],
      [kind |-> "tok", tok |-> Null],
      [kind |-> "tok", tok |-> <<"[", "]">>],
      [kind |-> "tok", tok |-> <<"7">>] }
    \cup { [kind |-> "object", code |-> <<"2", "0", "0">>, data |-> d, msg |-> NoStr] :
            d \in {DataTok(NoStr), DataTok(Null), DataTok(Str1("none"))}
                  \cup {DataArray(es) : es \in SeqsUpTo(Entries, MaxData)}
                  \cup {DataArray(<<FullEntry, e>>) : e \in BadEntries} }
    \cup { [kind |-> "object", code |-> c, data |-> d, msg |-> Str1("error")] :
            c \in {NoStr, <<"4", "0", "4">>, <<"-", "4", "6", "0">>, Str1("200"), <<"2", "0", "0", ".", "0">>},
            d \in {DataTok(NoStr), DataArray(<<FullEntry>>)} }

FewBodies ==
    { [kind |-> "text"],
      [kind |-> "object", code |-> <<"4", "0", "4">>, data |-> DataTok(NoStr),
       msg |-> Str1("error")],
      [kind |-> "object", code |-> <<"2", "0", "0">>, data |-> DataArray(<<FullEntry>>),
       msg |-> NoStr] }

\* ------------------------------------------------------------ startup

EnvKeys == {"PORT", "NETEASE_COOKIE", "REAL_IP", "LEVEL", "NETEASE_MUSIC_API"}

Unset == [set |-> FALSE, val |-> NoStr]
SetTo(v) == [set |-> TRUE, val |-> v]

NoEnv == [k \in EnvKeys |-> Unset]

\* Process environments at start: nothing set; everything set; the
\* cookie set to the empty string.
Envs ==
    { NoEnv,
      [k \in EnvKeys |->
         CASE k = "PORT"              -> SetTo(<<"9090">>)
           [] k = "NETEASE_COOKIE"    -> SetTo(<<"MUSIC_U", "=", "abc", ";">>)
           [] k = "REAL_IP"           -> SetTo(<<"1.2.3.4">>)
           [] k = "LEVEL"             -> SetTo(<<"lossless">>)
           [] k = "NETEASE_MUSIC_API" -> SetTo(<<"http://api.local">>)],
      [NoEnv EXCEPT !["NETEASE_COOKIE"] = SetTo(NoStr)] }

\* The .env file: the keys it gives (an unset key is not in the file).
DotenvFiles ==
    { [NoEnv EXCEPT !["NETEASE_COOKIE"] = SetTo(<<"MUSIC_U", "=", "xyz">>),
                    !["LEVEL"] = SetTo(<<"standard">>)] }

\* os.Getenv: the value, "" for a variable that is not set.
Getenv(e, key) == IF e[key].set THEN e[key].val ELSE NoStr

\* getEnvOrDefault(key, defaultValue).
getEnvOrDefault(e, key, defaultValue) ==
    IF Getenv(e, key) # NoStr THEN Getenv(e, key) ELSE defaultValue

\* godotenv.Load(): a key of the file is set in the environment unless
\* the environment already has that variable.
DotenvLoad(e, file) ==
    [k \in EnvKeys |-> IF ~e[k].set /\ file[k].set THEN file[k] ELSE e[k]]

\* The Config that init() builds from the environment.
BuildConfig(e) ==
    [Port            |-> getEnvOrDefault(e, "PORT", <<"8080">>),
     Cookie          |-> getEnvOrDefault(e, "NETEASE_COOKIE", NoStr),
     RealIP          |-> getEnvOrDefault(e, "REAL_IP", <<"116.25.146.177">>),
     Level           |-> getEnvOrDefault(e, "LEVEL", <<"exhigh">>),
     NeteaseMusicAPI |-> getEnvOrDefault(e, "NETEASE_MUSIC_API", <<"https://example.com">>)]

\* `var config Config` before init() runs.
ZeroConfig ==
    [Port |-> NoStr, Cookie |-> NoStr, RealIP |-> NoStr, Level |-> NoStr,
     NeteaseMusicAPI |-> NoStr]

\* init() without its check of the cookie.
CookieNotChecked(c) == FALSE

\* init()'s check after building the config: log.Fatal on an empty cookie.
CookieMissing(c) == c.Cookie = NoStr

\* ------------------------------------------------------------ handlers

\* c.Query(key): the value, "" when the key is not in the query.
Query(q, key) == IF q[key].present THEN q[key].value ELSE NoStr

\* A default that also replaces a value that is present and empty.
DefaultQueryNonEmpty(q, key, def) ==
    IF q[key].present /\ q[key].value # NoStr THEN q[key].value ELSE def

\* c.DefaultQuery(key, def): the value when the key is in the query,
\* empty or not; def otherwise.
DefaultQuery(q, key, def) == IF q[key].present THEN q[key].value ELSE def

\* c.JSON(status, ErrorResponse{Code, Message}).
ErrorResponse(status, code, message) ==
    [status |-> status,
     body   |-> [kind |-> "error", code |-> code, message |-> message]]

\* The millisecond within the second, in place of the second.
UnixSubsecond(now) == now % 1000

\* time.Now().UnixNano() / 1e6 and time.Now().Unix() of a clock in ms.
UnixMilli(now) == now
Unix(now) == now \div 1000

\* fullURL: the API path and the encoded parameters, added in the
\* order id, level, timestamp, cookie, realIP.
FullURL(cfg, songID, level, realIP, timestamp) ==
    [base     |-> cfg.NeteaseMusicAPI \o <<"/song/url/v1">>,
     rawQuery |-> Encode(Add(Add(Add(Add(Add(<<>>,
                     "id", Itoa(songID)),
                     "level", level),
                     "timestamp", Itoa(timestamp)),
                     "cookie", cfg.Cookie),
                     "realIP", realIP))]

NoURL == [base |-> NoStr, rawQuery |-> NoStr]

\* getSongURL without its emptiness check: an empty id reaches Atoi.
SongStartNoEmptyCheck(q, cfg, now) ==
    LET id == Atoi(Query(q, "id"))
    IN  IF id.err
        THEN [resps |-> <<ErrorResponse(400, 400, "Invalid song id format")>>,
              get |-> FALSE, url |-> NoURL]
        ELSE [resps |-> <<>>,
              get   |-> TRUE,
              url   |-> FullURL(cfg, id.n,
                                DefaultQuery(q, "level", cfg.Level),
                                DefaultQuery(q, "realip", cfg.RealIP),
                                UnixMilli(now))]

\* getSongURL without the return after its error answers: the handler
\* goes on to the outbound call.
SongStartNoReturn(q, cfg, now) ==
    LET idStr == Query(q, "id")
        id    == Atoi(idStr)
    IN  [resps |-> IF idStr = NoStr
                   THEN <<ErrorResponse(400, 400, "Missing required parameter: id")>>
                   ELSE IF id.err
                   THEN <<ErrorResponse(400, 400, "Invalid song id format")>>
                   ELSE <<>>,
         get   |-> TRUE,
         url   |-> FullURL(cfg, id.n,
                           DefaultQuery(q, "level", cfg.Level),
                           DefaultQuery(q, "realip", cfg.RealIP),
                           UnixMilli(now))]

\* getSongURL up to http.Get: the responses written and whether the
\* outbound GET is issued, and to which URL.
SongStart(q, cfg, now) ==
    LET idStr == Query(q, "id")
        id    == Atoi(idStr)
    IN  IF idStr = NoStr
        THEN [resps |-> <<ErrorResponse(400, 400, "Missing required parameter: id")>>,
              get |-> FALSE, url |-> NoURL]
        ELSE IF id.err
        THEN [resps |-> <<ErrorResponse(400, 400, "Invalid song id format")>>,
              get |-> FALSE, url |-> NoURL]
        ELSE [resps |-> <<>>,
              get   |-> TRUE,
              url   |-> FullURL(cfg, id.n,
                                DefaultQuery(q, "level", cfg.Level),
                                DefaultQuery(q, "realip", cfg.RealIP),
                                UnixMilli(now))]

\* getSongURL when http.Get returns an error.
GetFailed == <<ErrorResponse(500, 500, "Failed to request music service")>>

\* getSongURL when io.ReadAll returns an error.
ReadFailed == <<ErrorResponse(500, 500, "Failed to read response from music service")>>

\* getSongURL answering a rejected body with its own code, 400.
SongFinishOwnCode(body) ==
    IF UnmarshalErr(body)
    THEN <<ErrorResponse(500, 500, "Failed to parse response from music service")>>
    ELSE LET songResp == Unmarshal(body)
         IN  IF songResp.Code # 200
             THEN <<ErrorResponse(400, 400, "Music service returned error")>>
             ELSE <<[status |-> 200,
                     body   |-> [kind |-> "song", json |-> Marshal(songResp)]]>>

\* getSongURL from json.Unmarshal on: the responses written for a body.
SongFinish(body) ==
    IF UnmarshalErr(body)
    THEN <<ErrorResponse(500, 500, "Failed to parse response from music service")>>
    ELSE LET songResp == Unmarshal(body)
         IN  IF songResp.Code # 200
             THEN <<ErrorResponse(400, songResp.Code, "Music service returned error")>>
             ELSE <<[status |-> 200,
                     body   |-> [kind |-> "song", json |-> Marshal(songResp)]]>>

\* The /health handler.
HealthResponse(now) ==
    [status |-> 200,
     body   |-> [kind |-> "health", status |-> "ok", service |-> "PublicMusicService",
                 version |-> "1.0.0", timestamp |-> Unix(now)]]

\* A method test that no request passes ("options").
CorsNeverAborts(rq) == rq.method = "options"

\* corsMiddleware: an OPTIONS request is aborted with 204.
CorsAborts(rq) == rq.method = "OPTIONS"

NoContent == [status |-> 204, body |-> [kind |-> "none"]]

\* The routes main() registers: the handler of a method and path, "none"
\* when there is no such route.
Route(rq) ==
    CASE rq.method = "GET" /\ rq.path = "/health" -> "health"
      [] rq.method = "GET" /\ rq.path = "/song"   -> "song"
      [] OTHER                                    -> "none"

\* gin's answer when no route matches and no handler wrote a response.
NotFound == [status |-> 404, body |-> [kind |-> "text", text |-> "404 page not found"]]

\* ------------------------------------------------------------ state

\* Requests in flight: gin runs each request on a goroutine of its own.
Slots == {"s1", "s2"}
\* The goroutine of a server that is sent one request at a time.
OneSlot == {"s1"}

\* The wall clock at process start, in ms, and the advances it makes.
StartTimes == {999}
ClockSteps == {1, 1000}

VARIABLES
    proc,       \* "init": before init(); "main": in main(); "listening"; "exited"
    env,        \* the process environment
    config,     \* the package variable config
    clock,      \* the wall clock, ms
    ticks,      \* advances of the clock so far
    pc,         \* per slot: "idle", "awaitGet", "readBody", "done"
    req,        \* per slot: the request being served
    hdr,        \* per slot: the CORS headers are set on the response
    ran,        \* per slot: the route handler the chain ran, if any
    url,        \* per slot: fullURL of the outbound GET
    outCalls,   \* per slot: outbound GETs issued for the request
    reply,      \* per slot: what the outbound call returned
    resp,       \* per slot: the responses written to the caller, in order
    healthLog   \* the timestamps of the last two /health responses, in call order

vars == <<proc, env, config, clock, ticks, pc, req, hdr, ran, url, outCalls,
          reply, resp, healthLog>>

NoRequest == [method |-> "", path |-> "", query |-> NoQuery]
NoReply == [got |-> "none"]

Init ==
    /\ proc = "init"
    /\ env \in Envs
    /\ config = ZeroConfig
    /\ clock \in StartTimes
    /\ ticks = 0
    /\ pc = [r \in Slots |-> "idle"]
    /\ req = [r \in Slots |-> NoRequest]
    /\ hdr = [r \in Slots |-> FALSE]
    /\ ran = [r \in Slots |-> ""]
    /\ url = [r \in Slots |-> NoURL]
    /\ outCalls = [r \in Slots |-> 0]
    /\ reply = [r \in Slots |-> NoReply]
    /\ resp = [r \in Slots |-> <<>>]
    /\ healthLog = <<>>

\* ------------------------------------------------------------ actions

\* init(): godotenv.Load() when a .env file exists, the config from the
\* environment, log.Fatal when the cookie is empty.
LoadConfig ==
    /\ proc = "init"
    /\ \E file \in DotenvFiles \cup {NoEnv} :
         LET e == DotenvLoad(env, file)
             c == BuildConfig(e)
         IN  /\ env' = e
             /\ config' = c
             /\ proc' = IF CookieMissing(c) THEN "exited" ELSE "main"
    /\ UNCHANGED <<clock, ticks, pc, req, hdr, ran, url, outCalls, reply, resp,
                   healthLog>>

\* main(): the routes are registered and r.Run binds the listener, or
\* log.Fatal when it cannot.
Run ==
    /\ proc = "main"
    /\ \E bound \in BOOLEAN : proc' = IF bound THEN "listening" ELSE "exited"
    /\ UNCHANGED <<env, config, clock, ticks, pc, req, hdr, ran, url, outCalls,
                   reply, resp, healthLog>>

\* The last two of the log with one more timestamp.
Logged(log, ts) == IF Len(log) < 2 THEN Append(log, ts) ELSE <<log[2], ts>>

\* A chain whose song handler stores the level it resolved in the
\* package's config.
HandleWritesConfig(r, rq) ==
    LET h   == IF CorsAborts(rq) THEN "abort" ELSE Route(rq)
        out == CASE h = "abort"  -> [resps |-> <<NoContent>>, get |-> FALSE, url |-> NoURL]
                 [] h = "health" -> [resps |-> <<HealthResponse(clock)>>, get |-> FALSE,
                                     url |-> NoURL]
                 [] h = "song"   -> SongStart(rq.query, config, clock)
                 [] OTHER        -> [resps |-> <<NotFound>>, get |-> FALSE, url |-> NoURL]
    IN  /\ req' = [req EXCEPT ![r] = rq]
        /\ hdr' = [hdr EXCEPT ![r] = TRUE]
        /\ ran' = [ran EXCEPT ![r] = h]
        /\ resp' = [resp EXCEPT ![r] = out.resps]
        /\ url' = [url EXCEPT ![r] = out.url]
        /\ outCalls' = [outCalls EXCEPT ![r] = IF out.get THEN @ + 1 ELSE @]
        /\ pc' = [pc EXCEPT ![r] = IF out.get THEN "awaitGet" ELSE "done"]
        /\ healthLog' = IF h = "health"
                        THEN Logged(healthLog, out.resps[1].body.timestamp)
                        ELSE healthLog
        /\ config' = IF h = "song" /\ out.get
                     THEN [config EXCEPT !.Level = DefaultQuery(rq.query, "level", @)]
                     ELSE config
        /\ UNCHANGED <<proc, env, clock, ticks, reply>>

\* The handler chain of one request, up to its return or to the outbound
\* call: corsMiddleware, then the route's handler.
Handle(r, rq) ==
    LET h   == IF CorsAborts(rq) THEN "abort" ELSE Route(rq)
        out == CASE h = "abort"  -> [resps |-> <<NoContent>>, get |-> FALSE, url |-> NoURL]
                 [] h = "health" -> [resps |-> <<HealthResponse(clock)>>, get |-> FALSE,
                                     url |-> NoURL]
                 [] h = "song"   -> SongStart(rq.query, config, clock)
                 [] OTHER        -> [resps |-> <<NotFound>>, get |-> FALSE, url |-> NoURL]
    IN  /\ req' = [req EXCEPT ![r] = rq]
        /\ hdr' = [hdr EXCEPT ![r] = TRUE]
        /\ ran' = [ran EXCEPT ![r] = h]
        /\ resp' = [resp EXCEPT ![r] = out.resps]
        /\ url' = [url EXCEPT ![r] = out.url]
        /\ outCalls' = [outCalls EXCEPT ![r] = IF out.get THEN @ + 1 ELSE @]
        /\ pc' = [pc EXCEPT ![r] = IF out.get THEN "awaitGet" ELSE "done"]
        /\ healthLog' = IF h = "health"
                        THEN Logged(healthLog, out.resps[1].body.timestamp)
                        ELSE healthLog
        /\ UNCHANGED <<proc, env, config, clock, ticks, reply>>

\* A request arrives and its chain runs.
Serve(r, R) ==
    /\ proc = "listening"
    /\ pc[r] = "idle"
    /\ \E rq \in R : Handle(r, rq)

\* http.Get returns: an error, or a response whose body is to be read.
HttpGetReturns(r) ==
    /\ pc[r] = "awaitGet"
    /\ \E ok \in BOOLEAN :
         IF ok
         THEN /\ pc' = [pc EXCEPT ![r] = "readBody"]
              /\ reply' = [reply EXCEPT ![r] = [got |-> "response"]]
              /\ resp' = resp
         ELSE /\ pc' = [pc EXCEPT ![r] = "done"]
              /\ reply' = [reply EXCEPT ![r] = [got |-> "getError"]]
              /\ resp' = [resp EXCEPT ![r] = @ \o GetFailed]
    /\ UNCHANGED <<proc, env, config, clock, ticks, req, hdr, ran, url, outCalls,
                   healthLog>>

\* The rest of getSongURL once a body b is read.
Finish(r, b) ==
    /\ pc' = [pc EXCEPT ![r] = "done"]
    /\ reply' = [reply EXCEPT ![r] = [got |-> "body", body |-> b]]
    /\ resp' = [resp EXCEPT ![r] = @ \o SongFinish(b)]
    /\ UNCHANGED <<proc, env, config, clock, ticks, req, hdr, ran, url, outCalls,
                   healthLog>>

\* io.ReadAll returns: an error, or the body, which is decoded, checked
\* and answered.
ReadAllReturns(r, B) ==
    /\ pc[r] = "readBody"
    /\ \/ /\ pc' = [pc EXCEPT ![r] = "done"]
          /\ reply' = [reply EXCEPT ![r] = [got |-> "readError"]]
          /\ resp' = [resp EXCEPT ![r] = @ \o ReadFailed]
          /\ UNCHANGED <<proc, env, config, clock, ticks, req, hdr, ran, url,
                         outCalls, healthLog>>
       \/ \E b \in B : Finish(r, b)

\* The response is delivered and the request's goroutine ends.
Close(r) ==
    /\ pc[r] = "done"
    /\ pc' = [pc EXCEPT ![r] = "idle"]
    /\ req' = [req EXCEPT ![r] = NoRequest]
    /\ hdr' = [hdr EXCEPT ![r] = FALSE]
    /\ ran' = [ran EXCEPT ![r] = ""]
    /\ url' = [url EXCEPT ![r] = NoURL]
    /\ outCalls' = [outCalls EXCEPT ![r] = 0]
    /\ reply' = [reply EXCEPT ![r] = NoReply]
    /\ resp' = [resp EXCEPT ![r] = <<>>]
    /\ UNCHANGED <<proc, env, config, clock, ticks, healthLog>>

\* Time passes.
Tick ==
    /\ ticks < MaxTicks
    /\ \E d \in ClockSteps : clock' = clock + d
    /\ ticks' = ticks + 1
    /\ UNCHANGED <<proc, env, config, pc, req, hdr, ran, url, outCalls, reply,
                   resp, healthLog>>

\* One request at a time: every request, a few upstream bodies.
Next ==
    \/ LoadConfig
    \/ Run
    \/ Tick
    \/ \E r \in OneSlot : Serve(r, Requests)
    \/ \E r \in OneSlot : HttpGetReturns(r)
    \/ \E r \in OneSlot : ReadAllReturns(r, FewBodies)
    \/ \E r \in OneSlot : Close(r)

Spec == Init /\ [][Next]_vars

\* One request at a time: a few requests, every upstream body.
NextRelay ==
    \/ LoadConfig
    \/ Run
    \/ Tick
    \/ \E r \in OneSlot : Serve(r, FewRequests)
    \/ \E r \in OneSlot : HttpGetReturns(r)
    \/ \E r \in OneSlot : ReadAllReturns(r, Bodies)
    \/ \E r \in OneSlot : Close(r)

SpecRelay == Init /\ [][NextRelay]_vars

\* Several requests in flight: a few requests and upstream bodies.
NextConc ==
    \/ LoadConfig
    \/ Run
    \/ Tick
    \/ \E r \in Slots : Serve(r, ConcRequests)
    \/ \E r \in Slots : HttpGetReturns(r)
    \/ \E r \in Slots : ReadAllReturns(r, FewBodies)
    \/ \E r \in Slots : Close(r)

SpecConc == Init /\ [][NextConc]_vars

\* ------------------------------------------------------------ properties

InFlight(r) == pc[r] # "idle"
Done(r) == pc[r] = "done"
IsSong(r) == req[r].method = "GET" /\ req[r].path = "/song"
IsHealth(r) == req[r].method = "GET" /\ req[r].path = "/health"
GotBody(r) == Done(r) /\ reply[r].got = "body"

\* The {code, message} answer with its HTTP status, as the caller reads it.
Answer(status, code, message) ==
    [status |-> status, body |-> [kind |-> "error", code |-> code, message |-> message]]

DigitChars == {"0", "1", "2", "3", "4", "5", "6", "7", "8", "9"}

\* A text that is an integer: an optional sign and at least one digit.
IsIntegerText(s) ==
    \E sign \in {<<>>, <<"+">>, <<"-">>} :
        /\ Len(s) > Len(sign)
        /\ SubSeq(s, 1, Len(sign)) = sign
        /\ \A i \in (Len(sign) + 1)..Len(s) : s[i] \in DigitChars

\* C1: a GET /song whose id is absent or empty is answered 400 "Missing
\* required parameter: id", one whose id is not an integer 400 "Invalid
\* song id format"; the request ends there, with no outbound call.
C1_InvalidIdRejected ==
    \A r \in Slots :
        InFlight(r) /\ IsSong(r) =>
            LET id == req[r].query.id
            IN  /\ (~id.present \/ id.value = NoStr) =>
                      /\ Done(r)
                      /\ resp[r] = <<Answer(400, 400, "Missing required parameter: id")>>
                      /\ outCalls[r] = 0 /\ reply[r] = NoReply
                /\ (id.present /\ id.value # NoStr /\ ~IsIntegerText(id.value)) =>
                      /\ Done(r)
                      /\ resp[r] = <<Answer(400, 400, "Invalid song id format")>>
                      /\ outCalls[r] = 0 /\ reply[r] = NoReply

\* C1's cases happen: a sign with no digit is answered "Invalid song id format".
C1_Witness ==
    \E r \in Slots :
        /\ Done(r) /\ IsSong(r)
        /\ req[r].query.id = Given(<<"-">>)
        /\ resp[r] = <<Answer(400, 400, "Invalid song id format")>>

\* The top-level code the decoder reads from a body: 0 when there is none.
UpstreamCode(body) ==
    IF body.kind = "object" /\ TokKind(body.code) = "number" THEN Atoi(body.code).n ELSE 0

\* C2: a body that decodes with a code other than 200 is answered HTTP
\* 400 with {code: the upstream code, message: "Music service returned
\* error"}, and nothing of the upstream data.
C2_UpstreamRejected ==
    \A r \in Slots :
        (GotBody(r) /\ ~UnmarshalErr(reply[r].body) /\ UpstreamCode(reply[r].body) # 200) =>
            resp[r] = <<Answer(400, UpstreamCode(reply[r].body), "Music service returned error")>>

\* C2's case happens: upstream code 404 with data is answered 400, code 404.
C2_Witness ==
    \E r \in Slots :
        /\ GotBody(r)
        /\ reply[r].body.kind = "object"
        /\ reply[r].body.code = <<"4", "0", "4">>
        /\ reply[r].body.data.kind = "array"
        /\ resp[r] = <<Answer(400, 404, "Music service returned error")>>

\* The value a JSON client reads from a token: its kind and, for a
\* number, the shortest decimal; for a string, the unescaped text.
Value(t) ==
    LET k == TokKind(t)
    IN  CASE k = "number" -> <<k>> \o MarshalFloat(t)
          [] k = "string" -> <<k>> \o Unquote(t)
          [] OTHER        -> <<k>> \o t

\* The keys an entry gives.
KeysOf(e) == IF e.kind = "tok" THEN {} ELSE {k \in AllKeys : e.f[k] # NoStr}

\* Two entries with the same field names and values.
SameEntry(a, b) ==
    /\ a.kind = b.kind
    /\ a.kind = "tok" => Value(a.tok) = Value(b.tok)
    /\ KeysOf(a) = KeysOf(b)
    /\ \A k \in KeysOf(a) : Value(a.f[k]) = Value(b.f[k])

\* A body that decodes with code 200.
Accepted(body) == ~UnmarshalErr(body) /\ UpstreamCode(body) = 200

\* C3 as stated: a body with code 200 and a data array is answered HTTP
\* 200 with the same entries in the same order, each with the same
\* field names and values as received.
C3_Verbatim ==
    \A r \in Slots :
        (GotBody(r) /\ Accepted(reply[r].body) /\ reply[r].body.data.kind = "array") =>
            LET up  == reply[r].body.data.items
                out == resp[r][1].body.json.data
            IN  /\ Len(resp[r]) = 1 /\ resp[r][1].status = 200
                /\ out.kind = "array" /\ Len(out.items) = Len(up)
                /\ \A i \in 1..Len(up) : SameEntry(out.items[i], up[i])

\* The token json.Marshal writes for the zero value of a Go type.
ZeroTok(type) ==
    CASE type = "int"     -> <<"0">>
      [] type = "float64" -> <<"0">>
      [] type = "string"  -> <<Quote, Quote>>
      [] type = "bool"    -> <<"false">>
      [] OTHER            -> Null

\* An answered entry is the received one cut to the declared fields: a
\* declared key has the received value when the entry gives it and it
\* is not null, the zero value of its type otherwise; no other key.
Redeclared(out, up) ==
    /\ out.kind = "object"
    /\ KeysOf(out) = DeclaredKeys
    /\ \A k \in DeclaredKeys :
          IF up.kind = "object" /\ TokKind(up.f[k]) \notin {"absent", "null"}
          THEN Value(out.f[k]) = Value(up.f[k])
          ELSE out.f[k] = ZeroTok(TypeOf(k))

\* C3 as amended: a body that decodes with code 200 is answered HTTP 200
\* with code 200 and, for a data array, as many entries in the same
\* order, each cut to the declared fields (see Redeclared); an absent
\* or null data is answered as null.
C3_DeclaredFieldsRelayed ==
    \A r \in Slots :
        (GotBody(r) /\ Accepted(reply[r].body)) =>
            /\ Len(resp[r]) = 1 /\ resp[r][1].status = 200
            /\ resp[r][1].body.kind = "song"
            /\ resp[r][1].body.json.code = <<"2", "0", "0">>
            /\ LET up  == reply[r].body.data
                   out == resp[r][1].body.json.data
               IN  IF up.kind = "array"
                   THEN /\ out.kind = "array" /\ Len(out.items) = Len(up.items)
                        /\ \A i \in 1..Len(up.items) : Redeclared(out.items[i], up.items[i])
                   ELSE out = [kind |-> "tok", tok |-> Null]

\* C3's cases happen: two different entries, the second with a key that
\* is not declared, are answered in their order.
C3_Witness ==
    \E r \in Slots :
        /\ GotBody(r) /\ Accepted(reply[r].body)
        /\ reply[r].body.data.kind = "array"
        /\ Len(reply[r].body.data.items) = 2
        /\ reply[r].body.data.items[1] = FullEntry
        /\ reply[r].body.data.items[2].kind = "object"
        /\ reply[r].body.data.items[2].f["time"] # NoStr
        /\ resp[r][1].status = 200
        /\ resp[r][1].body.json.data.items[2].f["id"] = <<"8">>

\* An outbound call was issued for the request in the slot.
Called(r) == InFlight(r) /\ url[r] # NoURL

\* C4: the outbound query's level is the inbound level when the request
\* has one and the configured default level when it has none; realIP
\* likewise from the inbound realip and the configured client IP.
C4_OptionalParameters ==
    \A r \in Slots :
        (InFlight(r) /\ IsSong(r) /\ IsIntegerText(req[r].query.id.value)) =>
            LET q == req[r].query
            IN  /\ Called(r)
                /\ QueryParam(url[r].rawQuery, "level") =
                      Given(IF q.level.present THEN q.level.value ELSE config.Level)
                /\ QueryParam(url[r].rawQuery, "realIP") =
                      Given(IF q.realip.present THEN q.realip.value ELSE config.RealIP)

\* C4's cases happen: an inbound level with "&" in it and no realip, sent
\* on as given and with the configured client IP.
C4_Witness ==
    \E r \in Slots :
        /\ Called(r)
        /\ req[r].query.level = Given(<<"hires", "&", "x">>)
        /\ ~req[r].query.realip.present
        /\ QueryParam(url[r].rawQuery, "level").value = <<"hires", "&", "x">>
        /\ QueryParam(url[r].rawQuery, "realIP").value = config.RealIP
        /\ config.RealIP # NoStr

ParseFailed == Answer(500, 500, "Failed to parse response from music service")

\* A body that is JSON of the result's shape, read generously: an object
\* at the top level, in which code, data, the entries and their declared
\* fields may be missing or null and are of the declared type otherwise.
MatchesShape(body) ==
    /\ body.kind = "object"
    /\ TokKind(body.code) \in {"absent", "null"}
         \/ (TokKind(body.code) = "number" /\ IsIntegerText(body.code))
    /\ IF body.data.kind = "tok" THEN TokKind(body.data.tok) \in {"absent", "null"}
       ELSE \A i \in 1..Len(body.data.items) :
              LET e == body.data.items[i]
              IN  IF e.kind = "tok" THEN e.tok = Null
                  ELSE \A k \in DeclaredKeys :
                         LET kind == TokKind(e.f[k])
                             type == TypeOf(k)
                         IN  \/ kind \in {"absent", "null"}
                             \/ type = "interface"
                             \/ type = "int" /\ kind = "number" /\ IsIntegerText(e.f[k])
                             \/ type = "float64" /\ kind = "number"
                             \/ type = "string" /\ kind = "string"
                             \/ type = "bool" /\ kind = "bool"

\* C5 as stated: a body that is not JSON, or is JSON that does not match
\* the result's shape, is answered HTTP 500 "Failed to parse response
\* from music service", never 400 and never 200.
C5_MismatchIsDecodeError ==
    \A r \in Slots :
        (GotBody(r) /\ ~MatchesShape(reply[r].body)) => resp[r] = <<ParseFailed>>

\* C5 as amended: a body is answered HTTP 500 "Failed to parse response
\* from music service" exactly when it is not JSON, or is JSON other than
\* null that does not match the result's shape; a top-level null is
\* decoded as the empty result and answered from its code, 0.
C5_DecodeError ==
    \A r \in Slots :
        GotBody(r) =>
            LET body == reply[r].body
                null == body.kind = "tok" /\ body.tok = Null
            IN  /\ (~MatchesShape(body) /\ ~null) <=> (resp[r] = <<ParseFailed>>)
                /\ null => resp[r] = <<Answer(400, 0, "Music service returned error")>>

\* C5's cases happen: code 200 and an entry whose size has a fraction is
\* a decode error.
C5_Witness ==
    \E r \in Slots :
        /\ GotBody(r)
        /\ reply[r].body.kind = "object"
        /\ reply[r].body.code = <<"2", "0", "0">>
        /\ reply[r].body.data.kind = "array"
        /\ \E i \in 1..Len(reply[r].body.data.items) :
              /\ reply[r].body.data.items[i].kind = "object"
              /\ reply[r].body.data.items[i].f["size"] = <<"9", ".", "5">>
        /\ resp[r] = <<ParseFailed>>

\* The id of the request in the slot passes validation.
ValidId(r) == IsIntegerText(req[r].query.id.value)

\* C6: a GET /song request issues no outbound GET when its id fails
\* validation and exactly one otherwise, and is sent exactly one
\* response; a failed step is the last one: the dispatch error is
\* answered before any body is read, and no response is written while
\* the outbound call is pending.
C6_OneCallOneResponse ==
    \A r \in Slots :
        (InFlight(r) /\ IsSong(r)) =>
            /\ outCalls[r] = (IF ValidId(r) THEN 1 ELSE 0)
            /\ Len(resp[r]) = (IF Done(r) THEN 1 ELSE 0)
            /\ ~ValidId(r) => Done(r) /\ reply[r] = NoReply
            /\ (Done(r) /\ reply[r].got = "getError") =>
                    resp[r] = <<Answer(500, 500, "Failed to request music service")>>
            /\ (Done(r) /\ reply[r].got = "readError") =>
                    resp[r] = <<Answer(500, 500, "Failed to read response from music service")>>
            /\ Done(r) => reply[r].got # "response"

\* C6's cases happen: a request whose outbound call failed has issued
\* one call and has one response.
C6_Witness ==
    \E r \in Slots :
        /\ Done(r) /\ IsSong(r)
        /\ reply[r].got = "getError"
        /\ outCalls[r] = 1
        /\ Len(resp[r]) = 1

\* C7: the server never listens, and no request is ever served, while
\* the configured cookie is empty.
C7_NoListenerWithoutCookie ==
    (proc = "listening" \/ \E r \in Slots : InFlight(r)) =>
        /\ config.Cookie # NoStr
        /\ Getenv(env, "NETEASE_COOKIE") # NoStr

\* C7's case happens: init() has run with NETEASE_COOKIE unset or empty
\* and the process has exited.
C7_Witness ==
    /\ proc = "exited"
    /\ Getenv(env, "NETEASE_COOKIE") = NoStr
    /\ config # ZeroConfig
    /\ config.Cookie = NoStr

\* C8: an OPTIONS request to any path is answered 204 with no body, no
\* route handler runs for it and no outbound call is made.
C8_OptionsShortCircuit ==
    \A r \in Slots :
        (InFlight(r) /\ req[r].method = "OPTIONS") =>
            /\ Done(r)
            /\ resp[r] = <<[status |-> 204, body |-> [kind |-> "none"]]>>
            /\ ran[r] \notin {"health", "song", "none"}
            /\ outCalls[r] = 0 /\ url[r] = NoURL /\ reply[r] = NoReply

\* C8's cases happen: OPTIONS on a path with no route is answered 204.
C8_Witness ==
    \E r \in Slots :
        /\ Done(r)
        /\ req[r].method = "OPTIONS" /\ req[r].path = "/other"
        /\ resp[r][1].status = 204

\* Every /health response is 200 with status "ok" and a timestamp that
\* is a second the wall clock has reached.
HealthOk ==
    \A r \in Slots :
        (InFlight(r) /\ IsHealth(r)) =>
            /\ Done(r) /\ Len(resp[r]) = 1
            /\ resp[r][1].status = 200
            /\ resp[r][1].body.status = "ok"
            /\ resp[r][1].body.timestamp * 1000 <= clock
            /\ \E t \in StartTimes : t < (resp[r][1].body.timestamp + 1) * 1000

\* C9 as stated: every /health response is 200 "ok", and of two
\* successive calls the later has the strictly greater timestamp.
C9_StrictlyIncreasing ==
    /\ HealthOk
    /\ Len(healthLog) = 2 => healthLog[2] > healthLog[1]

\* C9 as amended: every /health response is 200 "ok" with the wall
\* clock's second, and of two successive calls the later never has the
\* smaller timestamp (the two are equal within one second).
C9_NeverDecreasing ==
    /\ HealthOk
    /\ Len(healthLog) = 2 => healthLog[2] >= healthLog[1]

\* C9's cases happen: two successive calls a second apart, the later
\* with the greater timestamp.
C9_Witness ==
    /\ Len(healthLog) = 2
    /\ healthLog[2] > healthLog[1]
    /\ \E r \in Slots : Done(r) /\ IsHealth(r) /\ resp[r][1].body.timestamp = healthLog[2]

\* The response a request gets, from the request, the config and the
\* upstream reply alone; the timestamp of /health is the clock's.
ResponseOf(rq, cfg, rep) ==
    CASE rq.method = "OPTIONS" -> <<NoContent>>
      [] Route(rq) = "none"    -> <<NotFound>>
      [] Route(rq) = "song"    ->
            IF SongStart(rq.query, cfg, 0).resps # <<>>
            THEN SongStart(rq.query, cfg, 0).resps
            ELSE CASE rep.got = "getError"  -> GetFailed
                   [] rep.got = "readError" -> ReadFailed
                   [] rep.got = "body"      -> SongFinish(rep.body)
                   [] OTHER                 -> <<>>
      [] OTHER                 -> <<>>

\* What a slot holds of its request.
SlotState(r) == <<pc[r], req[r], hdr[r], ran[r], url[r], outCalls[r], reply[r], resp[r]>>

\* C10: once init() has run the config is never written; a step of one
\* request leaves every other request in flight as it was; and the
\* response of a finished request is the one its own query, the config
\* and its own upstream reply give.
C10_ConfigReadOnlyRequestsIndependent ==
    /\ [][proc # "init" => config' = config]_vars
    /\ [][\A r \in Slots :
            (\E o \in Slots \ {r} : SlotState(o)' # SlotState(o)) =>
                SlotState(r)' = SlotState(r)]_vars
    /\ [](\A r \in Slots :
            (Done(r) /\ ~IsHealth(r)) => resp[r] = ResponseOf(req[r], config, reply[r]))

\* C10's case happens: two requests in flight at once, one finished with
\* its upstream body while the other awaits its own.
C10_Witness ==
    /\ proc = "listening"
    /\ GotBody("s1") /\ resp["s1"][1].status = 200
    /\ pc["s2"] = "awaitGet"
    /\ req["s1"].query # req["s2"].query

====
